---- MODULE Spec2Model ----
(***************************************************************************)
(* Verification model of the foodbuzz client:                              *)
(*   - the stories backend tables and the queries of src/lib/stories.ts,   *)
(*   - the story viewer screen src/app/stories/[userId].tsx,               *)
(*   - the optimistic like / bookmark toggles of src/components/PostCard,  *)
(*   - the follow toggle of src/app/restaurant/profile/[id].tsx.           *)
(*                                                                         *)
(* React components are modelled with two records each: the hook state     *)
(* (the value the last setX call left) and the rendered snapshot (the      *)
(* values the closures of the last render captured).  A press handler and  *)
(* the render it schedules form one step (updates made inside a press      *)
(* event are flushed before the next event is dispatched); updates made    *)
(* in promise continuations and animation callbacks are rendered by a      *)
(* separate Render step, which may follow at once or after other events.   *)
(***************************************************************************)
EXTENDS Integers, Sequences, FiniteSets, TLC

\* ---------------------------------------------------------------- bounds
NStories == 3          \* rows of the stories table
MaxNow == 3            \* the clock runs over 0..MaxNow
MaxTaps == 2           \* taps on the story viewer per session
AnimSteps == 2         \* progress steps standing for the 5000 ms animation
HistCap == 2           \* the history counters saturate here
MaxPresses == 3        \* presses on the like, bookmark and follow buttons
MaxLikes == 2          \* post.likes_count ranges over 0..MaxLikes

Users == {"u1", "u2"}
NoUser == "nobody"     \* useAuth() returned no user
StoryIds == 1..NStories
Times == 0..MaxNow

VARIABLES
    \* backend
    storiesTbl,   \* set of rows of table stories
    seenTbl,      \* table seen_stories: how many rows each (story_id, user_id) has
    now,          \* the clock (new Date())
    q,            \* the last library query: arguments, table snapshot, result
    \* story viewer screen
    userId,       \* route parameter: the author whose stories are viewed
    user,         \* useAuth().user id or NoUser
    viewer,       \* hook state [stories, currentIndex, loading]
    viewerR,      \* values captured by the last render
    anim,         \* the Animated.timing on progress
    fetchPc,      \* position of fetchStories
    fetchOutcome, \* "none" | "ok" | "error": how the select settled
    markReqs,     \* markStoryAsSeen upserts in flight, per story id and caller
    markCalls,    \* story ids passed to markStoryAsSeen, in call order
    markErrors,   \* number of markStoryAsSeen calls that rejected
    markApplied,  \* per story id, the upserts the backend has executed
    markFailed,   \* some upsert request has failed
    lastPress,    \* the last press: side, index shown, progress shown
    nav,          \* router calls made by the screen
    unhandled,    \* an async handler rejected with nobody catching
    taps,         \* number of presses so far
    \* post card and restaurant profile screen
    card,         \* PostCard hook state [isLiked, likeCount, isBookmarked, likes, bookmark]
    cardR,        \* values captured by the card's last render
    rest,         \* restaurant screen hook state [isFollowing, followersCount]
    restR,        \* values captured by the restaurant screen's last render
    initFetch,    \* fetchInitialData: "pending" | "done" | "skipped"
    srv,          \* rows of likes / bookmarks / follows for (user, post or restaurant)
    reqs,         \* insert / delete requests in flight
    lastSettle,   \* per relation, the last request that settled
    dropped,      \* per relation, a press was ignored while the last request was in flight
    pushedLogin,  \* router.push('/login') was called
    logged,       \* relations whose toggle wrote to console.error
    noticed,      \* relations whose toggle showed the user a notice (Alert, toast)
    presses,      \* number of presses so far
    \* home screen (story tray) and create-story screen
    trayPc,       \* position of the home screen's fetchStories
    trayJob,      \* what fetchStories has awaited so far
    tray,         \* the home screen's stories state (the tray)
    followsTbl,   \* rows of the follows relation: who follows which author
    colDefault,   \* what the stories table gives is_active when an insert omits it
    inserts,      \* the story inserts made: row id, creation path, instant of the call
    createAlert   \* the last Alert of the create-story screen

backendVars == <<storiesTbl, seenTbl, now, q>>
viewerVars == <<userId, user, viewer, viewerR, anim, fetchPc, fetchOutcome,
                markReqs, markCalls, markErrors, markApplied, markFailed, lastPress,
                nav, unhandled, taps>>
cardVars == <<card, cardR, rest, restR, initFetch, srv, reqs, lastSettle, dropped,
              pushedLogin, logged, noticed, presses>>
homeVars == <<trayPc, trayJob, tray, followsTbl>>
createVars == <<colDefault, inserts, createAlert>>
vars == <<backendVars, viewerVars, cardVars, homeVars, createVars>>

\* ------------------------------------------------------- backend queries

\* All orderings of a finite set of rows.
SeqsOf(S) ==
    {f \in [1..Cardinality(S) -> S] : \A i, j \in 1..Cardinality(S) : i # j => f[i] # f[j]}

\* .order('created_at', { ascending: true })
OrderedAsc(rows) ==
    \A i \in 1..(Len(rows) - 1) : rows[i].created_at <= rows[i + 1].created_at

\* .gt('expires_at', new Date().toISOString()): the client clock and the
\* stored expires_at both carry whole milliseconds, the unit of Times.
gtOrEqual(col, t) == col >= t
gt(col, t) == col > t

\* The rows selected by
\*   .eq('user_id', userId).eq('is_active', true).gt('expires_at', now)
ActiveRowsOf(tbl, author, t) ==
    {s \in tbl : s.user_id = author /\ s.is_active = TRUE /\ gt(s.expires_at, t)}

\* The possible answers of the select of getUserStories / fetchStories:
\* the matching rows in any order that is ascending in created_at.
UserStoriesSelect(tbl, author, t) ==
    {rows \in SeqsOf(ActiveRowsOf(tbl, author, t)) : OrderedAsc(rows)}

\* .upsert(row, { onConflict: 'story_id,user_id' }) on seen_stories: a row
\* with the same story_id and user_id is overwritten, else the row is added.
insertRow(tbl, row) == [tbl EXCEPT ![row] = @ + 1]
upsert(tbl, row) ==
    IF tbl[row] > 0 THEN tbl ELSE [tbl EXCEPT ![row] = 1]

\* markStoryAsSeen: the try/catch logs the error and the promise resolves.
markStoryAsSeenRethrows(err) == IF err THEN "rejected" ELSE "resolved"
markStoryAsSeen(err) == "resolved"

SeenKeys == [story_id : StoryIds, user_id : Users]
NoSeenRows == [k \in SeenKeys |-> 0]
SeenRows(sid, uid) == seenTbl[[story_id |-> sid, user_id |-> uid]]

Callers == {"open", "next"}
MarkKeys == [story_id : StoryIds, from : Callers]
InFlight == {k \in MarkKeys : markReqs[k] > 0}

Sat(n) == IF n < HistCap THEN n ELSE HistCap

\* ------------------------------------------------------------ the tables

\* The attributes a row of stories can carry.
StoryAttrs ==
    [user_id : Users, is_active : BOOLEAN, created_at : 0..1, expires_at : 1..2]

mkRow(id, at) ==
    [id |-> id, user_id |-> at.user_id, is_active |-> at.is_active,
     created_at |-> at.created_at, expires_at |-> at.expires_at]

\* The stories tables: one row per id.
Tables == {{mkRow(id, f[id]) : id \in StoryIds} : f \in [StoryIds -> StoryAttrs]}

\* The tables the viewer sessions are opened on, at instant 1: every story
\* belongs to one of the two users, the first one is soft-deleted or not,
\* creation instants are not in id order and two of them coincide.
ViewerAttrs(id) ==
    [user_id : Users, is_active : IF id = 1 THEN BOOLEAN ELSE {TRUE},
     created_at : {(NStories - id) \div 2}, expires_at : {2}]

ViewerTables ==
    {{mkRow(id, f[id]) : id \in StoryIds} :
        f \in {g \in [StoryIds -> UNION {ViewerAttrs(id) : id \in StoryIds}] :
                  \A id \in StoryIds : g[id] \in ViewerAttrs(id)}}

NoQuery == [fn |-> "none"]

\* ------------------------------------------------- src/lib/stories.ts

\* getUserStories(userId): the select, or [] when the request fails.
getUserStories(author, err) ==
    /\ \E rows \in (IF err THEN {<<>>} ELSE UserStoriesSelect(storiesTbl, author, now)) :
          q' = [fn |-> "getUserStories", author |-> author, at |-> now,
                tbl |-> storiesTbl, err |-> err, result |-> rows]
    /\ UNCHANGED <<storiesTbl, seenTbl, now>>

\* getFollowingStories(userId): every active, unexpired story, whoever its
\* author, newest first; [] when the request fails.  userId is not used.
OrderedDesc(rows) ==
    \A i \in 1..(Len(rows) - 1) : rows[i].created_at >= rows[i + 1].created_at

getFollowingStories(tbl, t, err) ==
    IF err THEN {<<>>}
    ELSE {rows \in SeqsOf({s \in tbl : s.is_active = TRUE /\ gt(s.expires_at, t)}) :
             OrderedDesc(rows)}

\* new Set(seenStories.map(s => s.story_id)) over .eq('user_id', userId)
seenStoryIdsOfAnyUser(seen, v) == {k.story_id : k \in {x \in DOMAIN seen : seen[x] > 0}}
seenStoryIds(seen, v) ==
    {k.story_id : k \in {x \in DOMAIN seen : seen[x] > 0 /\ x.user_id = v}}

\* checkUnseenStories(userId): the authors whose key is true in unseenMap;
\* {} when either select fails.
checkUnseenStories(tbl, seen, v, t, err) ==
    IF err # "none" THEN {}
    ELSE LET stories == {s \in tbl : s.is_active = TRUE /\ gt(s.expires_at, t)}
         IN  {s.user_id : s \in {x \in stories : x.id \notin seenStoryIds(seen, v)}}

\* createStory(userId, imageUrl): the row the insert writes; created_at and
\* id are given by the table.
StoryLifetimeMs == 24 * 60 * 60 * 1000

NextId == Cardinality(storiesTbl) + 1

createStory(u, err) ==
    /\ Cardinality(storiesTbl) < NStories
    /\ IF err
       THEN UNCHANGED <<storiesTbl, inserts>>
       ELSE /\ storiesTbl' = storiesTbl \cup
                  {[id |-> NextId, user_id |-> u, is_active |-> TRUE,
                    created_at |-> now, expires_at |-> now + StoryLifetimeMs]}
            /\ inserts' = inserts \cup {[id |-> NextId, path |-> "createStory", at |-> now]}
    /\ UNCHANGED <<seenTbl, now, q, colDefault, createAlert>>

\* deleteStory(storyId, userId): update({ is_active: false }) on the rows
\* with .eq('id', storyId).eq('user_id', userId); a failed request changes
\* nothing and is rethrown.
deleteMatchesAnyOwner(s, sid, uid) == s.id = sid
deleteMatches(s, sid, uid) == s.id = sid /\ s.user_id = uid

deleteStory(sid, uid, err) ==
    /\ storiesTbl' = IF err THEN storiesTbl
                     ELSE {IF deleteMatches(s, sid, uid) THEN [s EXCEPT !.is_active = FALSE] ELSE s :
                              s \in storiesTbl}
    /\ q' = [fn |-> "deleteStory", story_id |-> sid, user_id |-> uid, err |-> err]
    /\ UNCHANGED <<seenTbl, now, colDefault, inserts, createAlert>>

\* Time passes.
ClockTick ==
    /\ now < MaxNow
    /\ now' = now + 1
    /\ UNCHANGED <<storiesTbl, seenTbl, q>>

\* ------------------------------------- src/app/stories/[userId].tsx

Mounted == nav = <<>>

IsSelf == userId = user

exitNoStoriesAlwaysBack(why) == [to |-> "back", why |-> why]
\* if (userId === user?.id) router.replace('/stories/create-story') else router.back()
exitNoStories(why) ==
    IF IsSelf THEN [to |-> "create", why |-> why] ELSE [to |-> "back", why |-> why]

\* The call markStoryAsSeen(storyId, user.id): the upsert request leaves.
callMarkStoryAsSeen(sid, from) ==
    /\ markReqs' = [markReqs EXCEPT ![[story_id |-> sid, from |-> from]] = @ + 1]
    /\ markCalls' = Append(markCalls, sid)

\* useEffect(..., [currentIndex, stories]) as run by the render that takes
\* the screen from snapshot old to state new: startProgressAnimation()
\* resets progress to 0 and starts the 5000 ms timing, whose callback is the
\* goToNextStory of that render.
startProgressAnimationNoReset(new) == [running |-> TRUE, idx |-> new.currentIndex, p |-> anim.p]
startProgressAnimation(new) == [running |-> TRUE, idx |-> new.currentIndex, p |-> 0]

effectAnimEveryRender(old, new, a) ==
    IF Len(new.stories) > 0 THEN startProgressAnimation(new) ELSE a
effectAnim(old, new, a) ==
    IF /\ (new.currentIndex # old.currentIndex \/ new.stories # old.stories)
       /\ Len(new.stories) > 0
    THEN startProgressAnimation(new)
    ELSE a

\* A render scheduled by a promise continuation or an animation callback.
Render ==
    /\ Mounted
    /\ viewerR # viewer
    /\ viewerR' = viewer
    /\ anim' = effectAnim(viewerR, viewer, anim)
    /\ UNCHANGED <<backendVars, cardVars, homeVars, createVars, userId, user, viewer, fetchPc, fetchOutcome, markReqs,
                   markCalls, markErrors, markApplied, markFailed, lastPress, nav,
                   unhandled, taps>>

\* fetchStories, from the select settling to the first await or the end.
fetchStoriesError ==
    /\ fetchPc = "select"
    /\ fetchOutcome' = "error"
    /\ nav' = Append(nav, exitNoStories("error"))
    /\ viewer' = [viewer EXCEPT !.loading = FALSE]
    /\ fetchPc' = "done"
    /\ UNCHANGED <<backendVars, cardVars, homeVars, createVars, userId, user, viewerR, anim, markReqs, markCalls,
                   markErrors, markApplied, markFailed, lastPress, unhandled, taps>>

fetchStoriesData ==
    /\ fetchPc = "select"
    /\ fetchOutcome' = "ok"
    /\ \E data \in UserStoriesSelect(storiesTbl, userId, now) :
          IF Len(data) = 0
          THEN /\ nav' = Append(nav, exitNoStories("empty"))
               /\ viewer' = [viewer EXCEPT !.loading = FALSE]
               /\ fetchPc' = "done"
               /\ UNCHANGED <<markReqs, markCalls>>
          ELSE IF user # NoUser
          THEN /\ viewer' = [viewer EXCEPT !.stories = data]
               /\ callMarkStoryAsSeen(data[1].id, "open")
               /\ fetchPc' = "mark"
               /\ UNCHANGED nav
          ELSE /\ viewer' = [viewer EXCEPT !.stories = data, !.loading = FALSE]
               /\ fetchPc' = "done"
               /\ UNCHANGED <<nav, markReqs, markCalls>>
    /\ UNCHANGED <<backendVars, cardVars, homeVars, createVars, userId, user, viewerR, anim, markErrors, markApplied,
                   markFailed, lastPress, unhandled, taps>>

\* A markStoryAsSeen upsert settles (err: the request failed), and the
\* caller awaiting it continues.
markSettles(r, err) ==
    /\ r \in InFlight
    /\ markReqs' = [markReqs EXCEPT ![r] = @ - 1]
    /\ seenTbl' = IF err THEN seenTbl ELSE upsert(seenTbl, [story_id |-> r.story_id, user_id |-> user])
    /\ markApplied' = IF err THEN markApplied
                      ELSE [markApplied EXCEPT ![r.story_id] = Sat(@ + 1)]
    /\ markFailed' = (markFailed \/ err)
    /\ LET res == markStoryAsSeen(err) IN
          /\ markErrors' = IF res = "rejected" THEN markErrors + 1 ELSE markErrors
          /\ IF r.from = "open"
             THEN \* fetchStories resumes after the await: catch and finally
                  /\ nav' = IF res = "rejected" THEN Append(nav, exitNoStories("error")) ELSE nav
                  /\ viewer' = [viewer EXCEPT !.loading = FALSE]
                  /\ fetchPc' = "done"
                  /\ UNCHANGED unhandled
             ELSE \* goToNextStory resumes after the await: nothing follows
                  /\ unhandled' = (unhandled \/ res = "rejected")
                  /\ UNCHANGED <<nav, viewer, fetchPc>>
    /\ UNCHANGED <<storiesTbl, now, q, cardVars, homeVars, createVars, userId, user, viewerR, anim, fetchOutcome,
                   markCalls, lastPress, taps>>

\* goToNextStory as captured by the render that showed index idx.
goToNextStoryMarksCurrent(idx) ==
    IF idx < Len(viewer.stories) - 1
    THEN /\ viewer' = IF Mounted THEN [viewer EXCEPT !.currentIndex = idx + 1] ELSE viewer
         /\ IF user # NoUser
            THEN callMarkStoryAsSeen(viewer.stories[idx + 1].id, "next")
            ELSE UNCHANGED <<markReqs, markCalls>>
         /\ UNCHANGED nav
    ELSE /\ nav' = Append(nav, [to |-> "back", why |-> "exhausted"])
         /\ UNCHANGED <<viewer, markReqs, markCalls>>
goToNextStory(idx) ==
    IF idx < Len(viewer.stories) - 1
    THEN /\ viewer' = IF Mounted THEN [viewer EXCEPT !.currentIndex = idx + 1] ELSE viewer
         /\ IF user # NoUser
            THEN callMarkStoryAsSeen(viewer.stories[idx + 2].id, "next")
            ELSE UNCHANGED <<markReqs, markCalls>>
         /\ UNCHANGED nav
    ELSE /\ nav' = Append(nav, [to |-> "back", why |-> "exhausted"])
         /\ UNCHANGED <<viewer, markReqs, markCalls>>

\* goToPreviousStory as captured by the render that showed index idx.
goToPreviousStoryRemark(idx) ==
    /\ viewer' = IF idx > 0 THEN [viewer EXCEPT !.currentIndex = idx - 1] ELSE viewer
    /\ IF idx > 0 /\ user # NoUser
       THEN callMarkStoryAsSeen(viewer.stories[idx].id, "next")
       ELSE UNCHANGED <<markReqs, markCalls>>
    /\ UNCHANGED nav
goToPreviousStoryUnguarded(idx) ==
    /\ viewer' = [viewer EXCEPT !.currentIndex = idx - 1]
    /\ UNCHANGED <<markReqs, markCalls, nav>>
goToPreviousStory(idx) ==
    /\ viewer' = IF idx > 0 THEN [viewer EXCEPT !.currentIndex = idx - 1] ELSE viewer
    /\ UNCHANGED <<markReqs, markCalls, nav>>

\* The animation advances.
animStep ==
    /\ anim.running
    /\ anim.p < AnimSteps
    /\ anim' = [anim EXCEPT !.p = anim.p + 1]
    /\ UNCHANGED <<backendVars, cardVars, homeVars, createVars, userId, user, viewer, viewerR, fetchPc, fetchOutcome,
                   markReqs, markCalls, markErrors, markApplied, markFailed, lastPress,
                   nav, unhandled, taps>>

\* The animation reaches 1: start's callback runs with finished = true.
animFinished ==
    /\ anim.running
    /\ anim.p = AnimSteps
    /\ Len(nav) < 2
    /\ anim' = [anim EXCEPT !.running = FALSE]
    /\ goToNextStory(anim.idx)
    /\ UNCHANGED <<backendVars, cardVars, homeVars, createVars, userId, user, viewerR, fetchPc, fetchOutcome,
                   markErrors, markApplied, markFailed, lastPress, unhandled, taps>>

\* The screen shows the TouchableOpacity (not the loading or empty view).
Touchable == Mounted /\ ~viewerR.loading /\ Len(viewerR.stories) > 0

\* handleScreenPress: stopAnimation, then previous or next by the side of
\* the press, then the render of the updates the press made.
handleScreenPress(side) ==
    /\ Touchable
    /\ taps < MaxTaps
    /\ taps' = taps + 1
    /\ lastPress' = [side |-> side, idx |-> viewerR.currentIndex, p |-> anim.p]
    /\ IF side = "left"
       THEN goToPreviousStory(viewerR.currentIndex)
       ELSE goToNextStory(viewerR.currentIndex)
    /\ viewerR' = IF nav' = <<>> THEN viewer' ELSE viewerR
    /\ anim' = IF nav' = <<>>
               THEN effectAnim(viewerR, viewer', [anim EXCEPT !.running = FALSE])
               ELSE [anim EXCEPT !.running = FALSE]
    /\ UNCHANGED <<backendVars, cardVars, homeVars, createVars, userId, user, fetchPc, fetchOutcome, markErrors,
                   markApplied, markFailed, unhandled>>

\* The close button: onPress={() => router.back()}
closePress ==
    /\ Touchable
    /\ taps < MaxTaps
    /\ taps' = taps + 1
    /\ lastPress' = [side |-> "close", idx |-> viewerR.currentIndex, p |-> anim.p]
    /\ nav' = Append(nav, [to |-> "back", why |-> "close"])
    /\ UNCHANGED <<backendVars, cardVars, homeVars, createVars, userId, user, viewer, viewerR, anim, fetchPc, fetchOutcome,
                   markReqs, markCalls, markErrors, markApplied, markFailed, unhandled>>

\* The progress bar of the shown item is an Animated.View of the main view
\* (not of the loading or empty view).
Attached == ~viewerR.loading /\ Len(viewerR.stories) > 0

\* The navigator removes the screen some time after router.back() or
\* router.replace(): the Animated.View goes and its value stops the
\* animation (the callback gets finished = false).  No handler of the screen
\* stops the animation on exit and the effect has no cleanup.
unmount ==
    /\ ~Mounted
    /\ Attached
    /\ anim.running
    /\ anim' = [anim EXCEPT !.running = FALSE]
    /\ UNCHANGED <<backendVars, cardVars, homeVars, createVars, userId, user, viewer, viewerR, fetchPc, fetchOutcome,
                   markReqs, markCalls, markErrors, markApplied, markFailed, lastPress,
                   nav, unhandled, taps>>

\* ----------------------------------------- src/components/PostCard.tsx

Relations == {"like", "bookmark", "follow"}
NoSettle == [n |-> 0]

\* if (loadingStates.likes) return;  and  disabled={loadingStates.likes}
likesLoadingIgnored(r) == FALSE
likesLoading(r) == r.likes

\* if (loadingStates.bookmark) return;  and  disabled={loadingStates.bookmark}
bookmarkLoading(r) == r.bookmark

\* The optimistic update of toggleLike.
optimisticLikeResetsFlags(c, wasLiked) ==
    [c EXCEPT !.isLiked = ~wasLiked,
              !.likeCount = IF wasLiked THEN @ - 1 ELSE @ + 1,
              !.likes = TRUE, !.bookmark = FALSE]
optimisticLike(c, wasLiked) ==
    [c EXCEPT !.isLiked = ~wasLiked,
              !.likeCount = IF wasLiked THEN @ - 1 ELSE @ + 1,
              !.likes = TRUE]

\* catch: revert the optimistic update; finally: clear the loading flag.
revertLikeKeepsCount(c, wasLiked) == [c EXCEPT !.isLiked = wasLiked, !.likes = FALSE]
revertLike(c, wasLiked) ==
    [c EXCEPT !.isLiked = wasLiked,
              !.likeCount = IF wasLiked THEN @ + 1 ELSE @ - 1,
              !.likes = FALSE]

optimisticBookmark(c, wasBookmarked) ==
    [c EXCEPT !.isBookmarked = ~wasBookmarked, !.bookmark = TRUE]

revertBookmarkKeepsFlag(c, wasBookmarked) == [c EXCEPT !.isBookmarked = wasBookmarked]
revertBookmark(c, wasBookmarked) ==
    [c EXCEPT !.isBookmarked = wasBookmarked, !.bookmark = FALSE]

\* The request a toggle sends: delete when the relation was active, insert
\* otherwise.  pre and fetched record the counter and whether the status
\* fetch had landed when the toggle started.
request(rel, was, pre) ==
    [n |-> presses + 1, rel |-> rel, op |-> IF was THEN "delete" ELSE "insert",
     was |-> was, pre |-> pre, fetched |-> initFetch # "pending"]

InFlightFor(rel) == {r \in reqs : r.rel = rel}

\* toggleLike, with the render of the updates the press made.  A press on
\* the disabled button does not reach the handler.
toggleLike ==
    /\ presses < MaxPresses
    /\ presses' = presses + 1
    /\ IF user = NoUser
       THEN /\ pushedLogin' = TRUE
            /\ UNCHANGED <<card, cardR, reqs, dropped>>
       ELSE IF likesLoading(cardR)
       THEN /\ dropped' = [dropped EXCEPT !["like"] = @ \/ InFlightFor("like") # {}]
            /\ UNCHANGED <<card, cardR, reqs, pushedLogin>>
       ELSE /\ card' = optimisticLike(card, cardR.isLiked)
            /\ cardR' = card'
            /\ reqs' = reqs \cup {request("like", cardR.isLiked, card.likeCount)}
            /\ dropped' = [dropped EXCEPT !["like"] = FALSE]
            /\ UNCHANGED pushedLogin
    /\ UNCHANGED <<backendVars, viewerVars, homeVars, createVars, rest, restR, initFetch, srv, lastSettle,
                   logged, noticed>>

\* toggleBookmark, likewise.
toggleBookmark ==
    /\ presses < MaxPresses
    /\ presses' = presses + 1
    /\ IF user = NoUser
       THEN /\ pushedLogin' = TRUE
            /\ UNCHANGED <<card, cardR, reqs, dropped>>
       ELSE IF bookmarkLoading(cardR)
       THEN /\ dropped' = [dropped EXCEPT !["bookmark"] = @ \/ InFlightFor("bookmark") # {}]
            /\ UNCHANGED <<card, cardR, reqs, pushedLogin>>
       ELSE /\ card' = optimisticBookmark(card, cardR.isBookmarked)
            /\ cardR' = card'
            /\ reqs' = reqs \cup {request("bookmark", cardR.isBookmarked, card.likeCount)}
            /\ dropped' = [dropped EXCEPT !["bookmark"] = FALSE]
            /\ UNCHANGED pushedLogin
    /\ UNCHANGED <<backendVars, viewerVars, homeVars, createVars, rest, restR, initFetch, srv, lastSettle,
                   logged, noticed>>

\* How a request can fail.  An insert is refused as a conflict only when the
\* row is there already; a delete of an absent row is no error.
ErrorKinds == {"NetworkError", "AuthError", "ConflictError"}
KindsOf(r, err) ==
    IF ~err THEN {"none"}
    ELSE IF r.op = "insert" /\ srv[r.rel] THEN ErrorKinds
    ELSE ErrorKinds \ {"ConflictError"}

\* The backend executes an insert or delete unless the request fails.
applyOp(rows, r, err) ==
    IF err THEN rows ELSE [rows EXCEPT ![r.rel] = (r.op = "insert")]

\* The request of a like or bookmark toggle settles and the toggle resumes
\* after its await: catch on error, then finally.
toggleSettles(r, err) ==
    /\ r \in reqs
    /\ r.rel \in {"like", "bookmark"}
    /\ reqs' = reqs \ {r}
    /\ srv' = applyOp(srv, r, err)
    /\ \E kind \in KindsOf(r, err) :
          lastSettle' = [lastSettle EXCEPT ![r.rel] = [n |-> r.n, err |-> err, was |-> r.was,
                                                      pre |-> r.pre, fetched |-> r.fetched,
                                                      kind |-> kind]]
    /\ card' = IF r.rel = "like"
               THEN IF err THEN revertLike(card, r.was) ELSE [card EXCEPT !.likes = FALSE]
               ELSE IF err THEN revertBookmark(card, r.was) ELSE [card EXCEPT !.bookmark = FALSE]
    /\ logged' = IF err THEN logged \cup {r.rel} ELSE logged
    /\ UNCHANGED <<backendVars, viewerVars, homeVars, createVars, cardR, rest, restR, initFetch, dropped,
                   pushedLogin, noticed, presses>>

\* What one status query of fetchInitialData leaves in its state: the row's
\* existence when it returned data, false when it resolved with an error
\* (data is null), the state as it was when the promise rejected.
Outcomes == {"data", "error", "rejected"}
statusOf(outcome, exists, current) ==
    IF outcome = "data" THEN exists
    ELSE IF outcome = "error" THEN FALSE
    ELSE current

\* fetchInitialData resumes after Promise.allSettled.
fetchInitialData(likeOutcome, bookmarkOutcome) ==
    /\ initFetch = "pending"
    /\ initFetch' = "done"
    /\ card' = [card EXCEPT !.isLiked = statusOf(likeOutcome, srv["like"], @),
                            !.isBookmarked = statusOf(bookmarkOutcome, srv["bookmark"], @)]
    /\ UNCHANGED <<backendVars, viewerVars, homeVars, createVars, cardR, rest, restR, srv, reqs, lastSettle,
                   dropped, pushedLogin, logged, noticed, presses>>

\* The card renders updates made outside a press.
RenderCard ==
    /\ cardR # card
    /\ cardR' = card
    /\ UNCHANGED <<backendVars, viewerVars, homeVars, createVars, card, rest, restR, initFetch, srv, reqs,
                   lastSettle, dropped, pushedLogin, logged, noticed, presses>>

\* --------------------------- src/app/restaurant/profile/[id].tsx

\* handleFollow up to its request: getUser, then delete or insert by the
\* isFollowing of the render the press came from.  No state is set.
handleFollow ==
    /\ presses < MaxPresses
    /\ presses' = presses + 1
    /\ IF user = NoUser
       THEN /\ pushedLogin' = TRUE
            /\ UNCHANGED reqs
       ELSE /\ reqs' = reqs \cup {request("follow", restR.isFollowing, rest.followersCount)}
            /\ UNCHANGED pushedLogin
    /\ UNCHANGED <<backendVars, viewerVars, homeVars, createVars, card, cardR, rest, restR, initFetch, srv,
                   lastSettle, dropped, logged, noticed>>

\* handleFollow resumes after its await: the state is set on success, the
\* error is logged otherwise.
followSettles(r, err) ==
    /\ r \in reqs
    /\ r.rel = "follow"
    /\ reqs' = reqs \ {r}
    /\ srv' = applyOp(srv, r, err)
    /\ \E kind \in KindsOf(r, err) :
          lastSettle' = [lastSettle EXCEPT ![r.rel] = [n |-> r.n, err |-> err, was |-> r.was,
                                                      pre |-> r.pre, fetched |-> r.fetched,
                                                      kind |-> kind]]
    /\ rest' = IF err THEN rest
               ELSE [rest EXCEPT !.isFollowing = ~r.was,
                                 !.followersCount = IF r.was THEN @ - 1 ELSE @ + 1]
    /\ logged' = IF err THEN logged \cup {r.rel} ELSE logged
    /\ UNCHANGED <<backendVars, viewerVars, homeVars, createVars, card, cardR, restR, initFetch, dropped,
                   pushedLogin, noticed, presses>>

\* The restaurant screen renders.
RenderRestaurant ==
    /\ restR # rest
    /\ restR' = rest
    /\ UNCHANGED <<backendVars, viewerVars, homeVars, createVars, card, cardR, rest, initFetch, srv, reqs,
                   lastSettle, dropped, pushedLogin, logged, noticed, presses>>

\* ---------------------------------- src/unnamed/part_012 (home screen)

TrayUsers == Users \cup {"u3"}

NoJob == [userHasStory |-> FALSE]

\* checkUserHasActiveStory(userId)
checkUserHasActiveStory(tbl, u, t, err) ==
    IF err THEN FALSE ELSE ActiveRowsOf(tbl, u, t) # {}

\* userStoriesMap.has(story.user_id)
MapHasNever(m, a) == FALSE
MapHas(m, a) == \E i \in 1..Len(m) : m[i].userId = a

\* followingStories.forEach(...): the entries of userStoriesMap in insertion
\* order after the first i stories.
RECURSIVE userStoriesMap(_, _, _, _)
userStoriesMap(rows, i, me, unseenMap) ==
    IF i = 0 THEN <<>>
    ELSE LET m == userStoriesMap(rows, i - 1, me, unseenMap)
             story == rows[i]
         IN  IF story.user_id = me \/ MapHas(m, story.user_id)
             THEN m
             ELSE Append(m, [id |-> story.id, userId |-> story.user_id, isYou |-> FALSE,
                             hasUnseenStory |-> story.user_id \in unseenMap,
                             hasActiveStory |-> TRUE])

\* The 'Your Story' entry.
userStory(me, userHasStory) ==
    [id |-> 0, userId |-> me, isYou |-> TRUE, hasUnseenStory |-> FALSE,
     hasActiveStory |-> userHasStory]

\* fetchStories of the home screen up to its second await.
trayOwn(err) ==
    /\ trayPc = "idle"
    /\ trayPc' = "following"
    /\ trayJob' = [userHasStory |-> checkUserHasActiveStory(storiesTbl, user, now, err)]
    /\ UNCHANGED <<backendVars, viewerVars, cardVars, createVars, tray, followsTbl>>

\* ... up to its third await: getFollowingStories has answered.
trayFollowing(err) ==
    /\ trayPc = "following"
    /\ trayPc' = "unseen"
    /\ \E rows \in getFollowingStories(storiesTbl, now, err) :
          trayJob' = [userHasStory |-> trayJob.userHasStory, following |-> rows,
                      followingErr |-> err]
    /\ UNCHANGED <<backendVars, viewerVars, cardVars, createVars, tray, followsTbl>>

\* ... to its end: checkUnseenStories has answered and the tray is set.
trayUnseen(err) ==
    /\ trayPc = "unseen"
    /\ trayPc' = "done"
    /\ LET unseenMap == checkUnseenStories(storiesTbl, seenTbl, user, now, err) IN
          /\ q' = [fn |-> "checkUnseenStories", viewer |-> user, at |-> now,
                   tbl |-> storiesTbl, seen |-> seenTbl, err |-> err, result |-> unseenMap]
          /\ tray' = <<userStory(user, trayJob.userHasStory)>> \o
                     userStoriesMap(trayJob.following, Len(trayJob.following), user, unseenMap)
    /\ UNCHANGED <<storiesTbl, seenTbl, now, viewerVars, cardVars, createVars, trayJob,
                   followsTbl>>

\* -------------------------- src/unnamed/part_014 (create-story screen)

CreateOutcomes == {"noImage", "offline", "uploadFailed", "insertFailed", "posted"}

\* handleCreateStory: the checks, the upload, the insert and the Alert.  The
\* insert names user_id, image_url and expires_at only.
handleCreateStory(outcome) ==
    /\ Cardinality(storiesTbl) < NStories
    /\ createAlert' = IF outcome = "posted" /\ user # NoUser THEN "Success" ELSE "Error"
    /\ IF outcome = "posted" /\ user # NoUser
       THEN /\ storiesTbl' = storiesTbl \cup
                  {[id |-> NextId, user_id |-> user, is_active |-> colDefault,
                    created_at |-> now, expires_at |-> now + StoryLifetimeMs]}
            /\ inserts' = inserts \cup {[id |-> NextId, path |-> "screen", at |-> now]}
       ELSE UNCHANGED <<storiesTbl, inserts>>
    /\ UNCHANGED <<seenTbl, now, q, colDefault, viewerVars, cardVars, homeVars>>

\* ------------------------------------------------------- specifications

IdleViewerScreen ==
    /\ viewer = [stories |-> <<>>, currentIndex |-> 0, loading |-> TRUE]
    /\ viewerR = viewer
    /\ anim = [running |-> FALSE, idx |-> 0, p |-> 0]
    /\ fetchPc = "select"
    /\ fetchOutcome = "none"
    /\ markReqs = [k \in MarkKeys |-> 0]
    /\ markCalls = <<>>
    /\ markErrors = 0
    /\ markApplied = [id \in StoryIds |-> 0]
    /\ markFailed = FALSE
    /\ lastPress = [side |-> "none", idx |-> 0, p |-> 0]
    /\ nav = <<>>
    /\ unhandled = FALSE
    /\ taps = 0

InitViewerScreen ==
    /\ userId \in Users
    /\ user \in {"u1", NoUser}
    /\ IdleViewerScreen

\* The home screen before its fetchStories, the create-story screen before
\* its first press.
NoTray ==
    /\ trayPc = "idle"
    /\ trayJob = NoJob
    /\ tray = <<>>

IdleHomeScreen == NoTray /\ followsTbl = {}

IdleCreateScreen ==
    /\ inserts = {}
    /\ createAlert = "none"

IdleStoryScreens == IdleHomeScreen /\ IdleCreateScreen /\ colDefault = TRUE

\* The card and the restaurant screen before their first press.
InitCardScreen ==
    /\ \E n \in 0..MaxLikes :
          card = [isLiked |-> FALSE, likeCount |-> n, isBookmarked |-> FALSE,
                  likes |-> FALSE, bookmark |-> FALSE]
    /\ cardR = card
    /\ rest = [isFollowing |-> FALSE, followersCount |-> 0]
    /\ restR = rest
    /\ srv \in [Relations -> BOOLEAN]
    /\ reqs = {}
    /\ lastSettle = [rel \in Relations |-> NoSettle]
    /\ dropped = [rel \in Relations |-> FALSE]
    /\ pushedLogin = FALSE
    /\ logged = {}
    /\ noticed = {}
    /\ presses = 0

IdleCardScreen ==
    /\ InitCardScreen
    /\ card.likeCount = 0
    /\ srv = [rel \in Relations |-> FALSE]
    /\ initFetch = "skipped"

\* The library queries over every table and instant.
InitStories ==
    /\ storiesTbl \in Tables
    /\ seenTbl = NoSeenRows
    /\ now \in Times
    /\ q = NoQuery
    /\ InitViewerScreen
    /\ IdleCardScreen
    /\ IdleStoryScreens
    /\ userId = "u1"
    /\ user = "u1"

NextStories ==
    \/ \E a \in Users, err \in BOOLEAN :
          getUserStories(a, err) /\ UNCHANGED <<viewerVars, cardVars, homeVars, createVars>>
    \/ ClockTick /\ UNCHANGED <<viewerVars, cardVars, homeVars, createVars>>

SpecStories == InitStories /\ [][NextStories]_vars

\* One viewer session.
InitViewer ==
    /\ storiesTbl \in ViewerTables
    /\ seenTbl = NoSeenRows
    /\ now = 1
    /\ q = NoQuery
    /\ InitViewerScreen
    /\ IdleCardScreen
    /\ IdleStoryScreens

NextViewer ==
    \/ fetchStoriesError
    \/ fetchStoriesData
    \/ Render
    \/ \E r \in MarkKeys, err \in BOOLEAN : markSettles(r, err)
    \/ animStep
    \/ animFinished
    \/ \E side \in {"left", "right"} : handleScreenPress(side)
    \/ closePress
    \/ unmount

SpecViewer == InitViewer /\ [][NextViewer]_vars

\* One viewer session left to its timers while time passes and the author
\* soft-deletes stories.
NextViewerLive ==
    \/ fetchStoriesError
    \/ fetchStoriesData
    \/ Render
    \/ \E r \in MarkKeys, err \in BOOLEAN : markSettles(r, err)
    \/ animStep
    \/ animFinished
    \/ ClockTick /\ UNCHANGED <<viewerVars, cardVars, homeVars, createVars>>
    \/ \E sid \in StoryIds :
          deleteStory(sid, userId, FALSE) /\ UNCHANGED <<viewerVars, cardVars, homeVars>>

SpecViewerLive == InitViewer /\ [][NextViewerLive]_vars

\* One post card and one restaurant profile screen.  The status fetch of
\* the card runs when a user is logged in and isInitialLoad is false.
InitCard ==
    /\ storiesTbl = {}
    /\ seenTbl = NoSeenRows
    /\ now = 0
    /\ q = NoQuery
    /\ InitViewerScreen
    /\ userId = "u2"
    /\ InitCardScreen
    /\ IdleStoryScreens
    /\ initFetch \in (IF user = NoUser THEN {"skipped"} ELSE {"pending", "skipped"})

NextCard ==
    \/ toggleLike
    \/ toggleBookmark
    \/ \E r \in reqs, err \in BOOLEAN : toggleSettles(r, err)
    \/ \E lo, bo \in Outcomes : fetchInitialData(lo, bo)
    \/ RenderCard
    \/ handleFollow
    \/ \E r \in reqs, err \in BOOLEAN : followSettles(r, err)
    \/ RenderRestaurant

SpecCard == InitCard /\ [][NextCard]_vars

\* The card when every query and every request succeeds.
NextCardOk ==
    \/ toggleLike
    \/ toggleBookmark
    \/ \E r \in reqs : toggleSettles(r, FALSE)
    \/ fetchInitialData("data", "data")
    \/ RenderCard

SpecCardOk == InitCard /\ [][NextCardOk]_vars

\* The toggles of one card whose requests all settle and whose updates are
\* all rendered: a request resolves or rejects, and React renders every
\* state update.
InitCardFair ==
    /\ InitCard
    /\ user = "u1"
    /\ initFetch = "skipped"
    /\ srv = [rel \in Relations |-> FALSE]

NextCardFair ==
    \/ toggleLike
    \/ toggleBookmark
    \/ \E r \in reqs, err \in BOOLEAN : toggleSettles(r, err)
    \/ RenderCard

SpecCardFair ==
    /\ InitCardFair /\ [][NextCardFair]_vars
    /\ WF_vars(\E r \in reqs, err \in BOOLEAN : toggleSettles(r, err))
    /\ WF_vars(RenderCard)


\* The home screen's tray over every table, set of seen rows, viewer and
\* instant.  Stories 1 and 2 may have been seen by either user.
TrayAttrs(id) ==
    [user_id : TrayUsers, is_active : BOOLEAN,
     created_at : {(NStories - id) \div 2}, expires_at : {2}]

TrayTables ==
    {{mkRow(id, f[id]) : id \in StoryIds} :
        f \in {g \in [StoryIds -> UNION {TrayAttrs(id) : id \in StoryIds}] :
                  \A id \in StoryIds : g[id] \in TrayAttrs(id)}}

TraySeen == {f \in [SeenKeys -> 0..1] : \A k \in SeenKeys : k.story_id > 2 => f[k] = 0}

InitTray ==
    /\ storiesTbl \in TrayTables
    /\ seenTbl \in TraySeen
    /\ now \in Times
    /\ q = NoQuery
    /\ userId = "u1"
    /\ user \in Users
    /\ IdleViewerScreen
    /\ IdleCardScreen
    /\ IdleStoryScreens

NextTray ==
    \/ \E err \in BOOLEAN : trayOwn(err)
    \/ \E err \in BOOLEAN : trayFollowing(err)
    \/ \E err \in {"none", "storiesError", "seenError"} : trayUnseen(err)

SpecTray == InitTray /\ [][NextTray]_vars

\* The tray of a viewer who follows any of the other authors, or none.
InitTrayFollows ==
    /\ storiesTbl \in TrayTables
    /\ seenTbl = NoSeenRows
    /\ now = 1
    /\ q = NoQuery
    /\ userId = "u1"
    /\ user \in Users
    /\ IdleViewerScreen
    /\ IdleCardScreen
    /\ IdleCreateScreen
    /\ colDefault = TRUE
    /\ NoTray
    /\ followsTbl \in SUBSET {[follower |-> user, followed |-> a] : a \in TrayUsers \ {user}}

SpecTrayFollows == InitTrayFollows /\ [][NextTray]_vars

\* Story creation by the library function and by the create-story screen.
InitCreate ==
    /\ storiesTbl = {}
    /\ seenTbl = NoSeenRows
    /\ now = 0
    /\ q = NoQuery
    /\ InitViewerScreen
    /\ IdleCardScreen
    /\ IdleHomeScreen
    /\ IdleCreateScreen
    /\ colDefault \in BOOLEAN

NextCreate ==
    \/ \E u \in Users, err \in BOOLEAN :
          createStory(u, err) /\ UNCHANGED <<viewerVars, cardVars, homeVars>>
    \/ \E outcome \in CreateOutcomes : handleCreateStory(outcome)
    \/ ClockTick /\ UNCHANGED <<viewerVars, cardVars, homeVars, createVars>>

SpecCreate == InitCreate /\ [][NextCreate]_vars

\* Soft deletes, by owners and by others, over the viewer's tables.
InitDelete ==
    /\ storiesTbl \in ViewerTables
    /\ seenTbl = NoSeenRows
    /\ now = 1
    /\ q = NoQuery
    /\ InitViewerScreen
    /\ IdleCardScreen
    /\ IdleStoryScreens

NextDelete ==
    \E sid \in StoryIds, uid \in Users, err \in BOOLEAN :
        deleteStory(sid, uid, err) /\ UNCHANGED <<viewerVars, cardVars, homeVars>>

SpecDelete == InitDelete /\ [][NextDelete]_vars


\* ------------------------------------------------- the viewer's states

\* The states of the viewer state machine, read off the hook state.
Loading == Mounted /\ viewer.loading
Playing(i) == Mounted /\ ~viewer.loading /\ Len(viewer.stories) > 0 /\ viewer.currentIndex = i
\* Playing(i, p) as the viewer sees it: item i is rendered and its timer runs.
PlayingAt(i) ==
    /\ Touchable /\ viewerR = viewer /\ viewer.currentIndex = i
    /\ anim.running /\ anim.idx = i
Exited == nav # <<>>
Exhausted == Exited /\ nav[1] = [to |-> "back", why |-> "exhausted"]

InResult(s, rows) == \E i \in 1..Len(rows) : rows[i] = s
StoryIdsOf(rows) == [i \in 1..Len(rows) |-> rows[i].id]

\* ---------------------------------------------------------------- claims

\* C1: when the request of a like or bookmark toggle fails, the local
\* boolean equals the value the toggle started from and the like counter
\* equals its value before the toggle, in both directions.
RollbackLaw ==
    [][\A r \in reqs :
          toggleSettles(r, TRUE) =>
             /\ r.rel = "like" => (card'.isLiked = r.was /\ card'.likeCount = r.pre)
             /\ r.rel = "bookmark" => card'.isBookmarked = r.was
      ]_vars

\* A failed unlike and a failed bookmark, both rolled back.
RollbackLawWitness ==
    /\ reqs = {}
    /\ lastSettle["like"].n > 0 /\ lastSettle["like"].err /\ lastSettle["like"].was
    /\ card.isLiked /\ card.likeCount = lastSettle["like"].pre
    /\ lastSettle["bookmark"].n > 0 /\ lastSettle["bookmark"].err
    /\ ~lastSettle["bookmark"].was /\ ~card.isBookmarked

AtMostOneOutstandingRequest ==
    \A rel \in Relations : Cardinality(InFlightFor(rel)) <= 1

\* C4: a story is returned by the per-author active query for author a at
\* instant now iff it belongs to a, is active and now < expires_at (before,
\* at and after the expiry instant); the result has every such story once
\* and is ascending in created_at.
ListActiveForAuthorVisibility ==
    (q.fn = "getUserStories" /\ ~q.err) =>
        /\ \A s \in q.tbl :
              InResult(s, q.result) <=>
                 (s.user_id = q.author /\ s.is_active /\ q.at < s.expires_at)
        /\ \A i \in 1..Len(q.result) : q.result[i] \in q.tbl
        /\ \A i, j \in 1..Len(q.result) :
              /\ i # j => q.result[i] # q.result[j]
              /\ i < j => q.result[i].created_at <= q.result[j].created_at

\* A query that returned two stories created at different instants while a
\* third active story of the author expired exactly at the query instant.
ListActiveForAuthorWitness ==
    /\ q.fn = "getUserStories" /\ ~q.err
    /\ Len(q.result) = 2
    /\ q.result[1].created_at < q.result[2].created_at
    /\ q.result[1].id > q.result[2].id
    /\ \E s \in q.tbl : s.user_id = q.author /\ s.is_active /\ s.expires_at = q.at

\* C5: with a logged-in viewer and no press, the markStoryAsSeen calls made
\* so far are those for item[0] .. item[currentIndex], in that order, and
\* when the session has exited as Exhausted they are exactly the N calls
\* item[0] .. item[N-1].
ViewerExhaustion ==
    (taps = 0 /\ user # NoUser /\ Len(viewer.stories) > 0) =>
        /\ markCalls = SubSeq(StoryIdsOf(viewer.stories), 1, viewer.currentIndex + 1)
        /\ Exhausted => markCalls = StoryIdsOf(viewer.stories)

ViewerExhaustionWitness ==
    /\ Exhausted /\ taps = 0 /\ user # NoUser
    /\ Len(viewer.stories) = NStories
    /\ Len(markCalls) = NStories

\* C6: seen_stories never holds two rows for one (story, viewer) pair, holds
\* exactly one once an upsert for the pair has been executed, however many
\* were, and no markStoryAsSeen call reports an error.
MarkSeenIdempotent ==
    /\ \A k \in SeenKeys : seenTbl[k] <= 1
    /\ \A sid \in StoryIds : markApplied[sid] >= 1 => SeenRows(sid, user) = 1
    /\ markErrors = 0

MarkSeenIdempotentWitness ==
    \E sid \in StoryIds : markApplied[sid] >= 2 /\ SeenRows(sid, user) = 1

\* C7: the settling of a markStoryAsSeen request, with or without an error,
\* changes nothing of the playback (index, stories, animation, exit) beyond
\* ending the loading phase when it is the call made on open, and no call
\* rejects or leaves an unhandled rejection.
MarkSeenNeverInterrupts ==
    /\ [](markErrors = 0 /\ ~unhandled)
    /\ [][\A r \in MarkKeys, err \in BOOLEAN :
            markSettles(r, err) =>
               /\ nav' = nav
               /\ anim' = anim
               /\ viewer'.stories = viewer.stories
               /\ viewer'.currentIndex = viewer.currentIndex
               /\ viewer'.loading = (IF r.from = "open" THEN FALSE ELSE viewer.loading)]_vars

\* A session whose upsert failed and that played on to exhaustion.
MarkSeenNeverInterruptsWitness ==
    /\ markFailed /\ Exhausted /\ taps = 0
    /\ \A sid \in StoryIds : SeenRows(sid, user) = 0
    /\ Len(markCalls) >= 2

\* C8: leaving Loading after a successful fetch leads to Playing(0, _) when
\* the sequence is not empty, and to the redirect to creation (self) or to
\* back-navigation (other) when it is empty; nothing else.
LoadingTransitions ==
    [][(Loading /\ ~Loading' /\ fetchOutcome' = "ok") =>
          IF Len(viewer'.stories) > 0
          THEN Playing(0)'
          ELSE nav' = <<[to |-> IF userId = user THEN "create" ELSE "back", why |-> "empty"]>>
      ]_vars

\* C9: after a failed fetch the viewer holds no stories, never plays, made
\* no markStoryAsSeen call, raised nothing unhandled, and has left as for an
\* empty result: to story creation when the author is the current user,
\* back otherwise.
FetchFailureDegrades ==
    fetchOutcome = "error" =>
        /\ viewer.stories = <<>>
        /\ ~anim.running
        /\ markCalls = <<>>
        /\ ~unhandled
        /\ Len(nav) = 1
        /\ nav[1].to = (IF userId = user THEN "create" ELSE "back")

FetchFailureDegradesWitness ==
    /\ fetchOutcome = "error"
    /\ userId = user
    /\ nav[1].to = "create"
    /\ ActiveRowsOf(storiesTbl, userId, now) # {}

\* C10: a press on the left half while item i > 0 is shown leads to item
\* i - 1 with progress 0 and the animation running for it, and makes no
\* markStoryAsSeen call and no SeenMark.
LeftTapGoesBack ==
    [][(handleScreenPress("left") /\ viewerR.currentIndex > 0) =>
          /\ viewer'.currentIndex = viewerR.currentIndex - 1
          /\ viewerR' = viewer'
          /\ anim' = [running |-> TRUE, idx |-> viewerR.currentIndex - 1, p |-> 0]
          /\ markCalls' = markCalls
          /\ markReqs' = markReqs
          /\ seenTbl' = seenTbl
          /\ nav' = nav
      ]_vars

\* After a left press on item[1] at progress > 0: item[0] plays from 0.
LeftTapGoesBackWitness ==
    /\ lastPress.side = "left" /\ lastPress.idx = 1 /\ lastPress.p > 0
    /\ taps = 1
    /\ Playing(0)
    /\ anim.running /\ anim.p = 0 /\ anim.idx = 0
    /\ Len(markCalls) = 2

\* C11: a press on the left half while item[0] plays changes nothing: the
\* index stays 0, the screen is not left, the running timer keeps running
\* and no markStoryAsSeen call is made.
LeftTapOnFirstIsNoOp ==
    [][(handleScreenPress("left") /\ PlayingAt(0)) =>
          /\ viewer' = viewer
          /\ nav' = nav
          /\ anim' = anim
          /\ markCalls' = markCalls
          /\ markReqs' = markReqs
      ]_vars

\* C12: from Playing(i, p) a press on the right half and the expiry of the
\* timer of item i do the same: with i not the last index the index becomes
\* i + 1 and (logged-in viewer) exactly one markStoryAsSeen call is made, for
\* item[i+1]; with i the last index the one router.back() of exhaustion is
\* made.  The render that follows either plays item i + 1 from progress 0.
AdvanceOrExhaust(i) ==
    IF i < Len(viewer.stories) - 1
    THEN /\ viewer' = [viewer EXCEPT !.currentIndex = i + 1]
         /\ markCalls' = IF user # NoUser
                         THEN Append(markCalls, viewer.stories[i + 2].id)
                         ELSE markCalls
         /\ nav' = nav
    ELSE /\ viewer' = viewer
         /\ markCalls' = markCalls
         /\ nav' = Append(nav, [to |-> "back", why |-> "exhausted"])
         /\ ~anim'.running

RightTapIsExpiry ==
    [][\A i \in 0..(NStories - 1) :
          /\ (handleScreenPress("right") /\ PlayingAt(i)) =>
                /\ AdvanceOrExhaust(i)
                /\ nav' = nav => (viewerR' = viewer' /\
                                  anim' = [running |-> TRUE, idx |-> i + 1, p |-> 0])
          /\ (animFinished /\ PlayingAt(i)) => AdvanceOrExhaust(i)
          /\ (Render /\ ~viewer.loading /\ ~anim.running /\ anim.idx = i
                     /\ viewer.currentIndex = i + 1 /\ viewerR.currentIndex = i) =>
                anim' = [running |-> TRUE, idx |-> i + 1, p |-> 0]
      ]_vars

\* A right press on item[0] at progress > 0 went to item[1], marked once.
RightTapIsExpiryWitness ==
    /\ lastPress.side = "right" /\ lastPress.idx = 0 /\ lastPress.p > 0
    /\ taps = 1 /\ user # NoUser
    /\ PlayingAt(1) /\ anim.p = 0
    /\ markCalls = <<viewer.stories[1].id, viewer.stories[2].id>>

\* C17: once the screen has called router.back() or router.replace(), the
\* timer of the session does not expire: no goToNextStory runs for it, so
\* no index change, markStoryAsSeen call or further navigation comes from it.
ExitStopsTimer ==
    [][~Mounted => ~animFinished]_vars

\* C13: the follow toggle is optimistic like the like and bookmark toggles:
\* the press that issues the insert or delete flips isFollowing and adjusts
\* followersCount before the request settles, and a failed request leaves
\* both at their values from before the press.
FollowIsOptimistic ==
    [][/\ (handleFollow /\ user # NoUser) =>
            /\ rest'.isFollowing = ~restR.isFollowing
            /\ rest'.followersCount =
                  IF restR.isFollowing THEN rest.followersCount - 1
                  ELSE rest.followersCount + 1
       /\ \A r \in reqs : followSettles(r, TRUE) =>
            /\ rest'.isFollowing = r.was
            /\ rest'.followersCount = r.pre
      ]_vars

\* C14: when the request of a follow toggle fails with an AuthError, the
\* follow state after settlement is the one from before the toggle and the
\* redirect to the login screen has been issued.
AuthErrorEscalates ==
    [][\A r \in reqs :
          (followSettles(r, TRUE) /\ lastSettle'["follow"].kind = "AuthError") =>
             /\ rest'.isFollowing = r.was
             /\ pushedLogin'
      ]_vars

\* C15: when the insert of a like or bookmark toggle is refused because the
\* row exists already, the optimistic state and counter are kept.
ConflictIsSuccess ==
    [][\A r \in reqs :
          (toggleSettles(r, TRUE) /\ lastSettle'[r.rel].kind = "ConflictError") =>
             /\ r.rel = "like" => (card'.isLiked = ~r.was /\ card'.likeCount = card.likeCount)
             /\ r.rel = "bookmark" => card'.isBookmarked = ~r.was
      ]_vars

\* C16: every like, bookmark or follow toggle whose request fails with an
\* error other than an AuthError shows the user a notice.
FailureIsSurfaced ==
    [][\A r \in reqs :
          ((toggleSettles(r, TRUE) \/ followSettles(r, TRUE))
              /\ lastSettle'[r.rel].kind # "AuthError") =>
             r.rel \in noticed'
      ]_vars

\* C18: when getFollowingStories answered, the tray is the one 'Your Story'
\* entry followed by exactly one entry for each author other than the viewer
\* who has a visible story, however many visible stories the author has, and
\* by no entry for anybody else.
VisibleAt(tbl, a, t) == {s \in tbl : s.user_id = a /\ s.is_active /\ t < s.expires_at}
EntriesOf(a) == {i \in 2..Len(tray) : tray[i].userId = a}

TrayDeduplicates ==
    (trayPc = "done" /\ ~trayJob.followingErr) =>
        /\ tray[1].isYou /\ tray[1].userId = user
        /\ \A i \in 2..Len(tray) : ~tray[i].isYou
        /\ \A a \in TrayUsers \ {user} :
              Cardinality(EntriesOf(a)) = (IF VisibleAt(storiesTbl, a, now) # {} THEN 1 ELSE 0)
        /\ EntriesOf(user) = {}

\* Two other authors, one of them with two visible stories: three entries.
TrayDeduplicatesWitness ==
    /\ trayPc = "done" /\ ~trayJob.followingErr
    /\ Len(tray) = 3
    /\ \E a \in TrayUsers \ {user} : Cardinality(VisibleAt(storiesTbl, a, now)) >= 2
    /\ VisibleAt(storiesTbl, user, now) = {}

\* C19: when both selects of checkUnseenStories(v) answered, an author is
\* marked unseen exactly when one of the author's stories that is active and
\* unexpired at the instant of the call has no seen_stories row (story, v).
UnseenComputation ==
    (q.fn = "checkUnseenStories" /\ q.err = "none") =>
        \A a \in TrayUsers :
            (a \in q.result) <=>
                \E s \in q.tbl :
                    /\ s.user_id = a /\ s.is_active /\ q.at < s.expires_at
                    /\ q.seen[[story_id |-> s.id, user_id |-> q.viewer]] = 0

\* An author with every visible story seen by v (one of them by nobody
\* else), a second author with an unseen one, a third with none visible.
UnseenComputationWitness ==
    /\ q.fn = "checkUnseenStories" /\ q.err = "none"
    /\ Cardinality(q.result) = 1
    /\ \E a \in TrayUsers \ q.result :
          /\ VisibleAt(q.tbl, a, q.at) # {}
          /\ \E s \in VisibleAt(q.tbl, a, q.at) : \E u \in Users \ {q.viewer} :
                q.seen[[story_id |-> s.id, user_id |-> u]] = 0
    /\ \E a \in TrayUsers : a \notin q.result /\ VisibleAt(q.tbl, a, q.at) = {}
    /\ \E a \in q.result : \E s \in VisibleAt(q.tbl, a, q.at) : \E u \in Users \ {q.viewer} :
          /\ q.seen[[story_id |-> s.id, user_id |-> u]] = 1
          /\ q.seen[[story_id |-> s.id, user_id |-> q.viewer]] = 0

\* C20: every story row inserted by createStory or by the create-story
\* screen has is_active = true and expires_at = instant of the call + 24 h.
StoryCreation ==
    \A c \in inserts : \A s \in storiesTbl :
        s.id = c.id => (s.is_active = TRUE /\ s.expires_at = c.at + StoryLifetimeMs)

\* C21: deleteStory(storyId, authorId) removes no row, sets is_active to
\* false on the story with that id when authorId owns it, and leaves every
\* other row, and that row too when authorId does not own it, as it was.
DeleteIsScopedSoftDelete ==
    [][\A sid \in StoryIds, uid \in Users :
          deleteStory(sid, uid, FALSE) =>
             /\ {s.id : s \in storiesTbl'} = {s.id : s \in storiesTbl}
             /\ Cardinality(storiesTbl') = Cardinality(storiesTbl)
             /\ \A s \in storiesTbl :
                   IF s.id = sid /\ s.user_id = uid
                   THEN [s EXCEPT !.is_active = FALSE] \in storiesTbl'
                   ELSE s \in storiesTbl'
      ]_vars

\* A delete by somebody who is not the owner left an active story active.
DeleteIsScopedSoftDeleteWitness ==
    /\ q.fn = "deleteStory" /\ ~q.err
    /\ \E s \in storiesTbl : s.id = q.story_id /\ s.user_id # q.user_id /\ s.is_active
    /\ \E s \in storiesTbl : s.id # q.story_id /\ ~s.is_active /\ s.user_id = q.user_id

\* C22: the one timer of the session is the timer of the item the screen
\* shows, and a timer is started only when none is running: after the
\* previous one expired, or after the press that starts it stopped the
\* previous one (also a press made after an expiry and before the render).
TimerStarts == anim'.running /\ anim'.p = 0 /\ anim' # anim

SequentialPlayback ==
    /\ [](anim.running => anim.idx = viewerR.currentIndex)
    /\ [][TimerStarts =>
            \/ ~anim.running
            \/ \E side \in {"left", "right"} : handleScreenPress(side)]_vars
    /\ [][\A side \in {"left", "right"} :
            handleScreenPress(side) =>
               (anim'.running => (anim'.p = 0 /\ anim'.idx = viewer'.currentIndex))]_vars

\* A right press made after the timer of item[0] expired and before the
\* render: item[1] is marked twice and plays once, from 0.
SequentialPlaybackWitness ==
    /\ taps = 1 /\ lastPress.side = "right" /\ lastPress.idx = 0
    /\ Len(markCalls) = 3 /\ markCalls[2] = markCalls[3]
    /\ viewer.currentIndex = 1 /\ viewerR = viewer
    /\ anim = [running |-> TRUE, idx |-> 1, p |-> 0]

\* C23: whenever the session holds stories, the index, in the state and as
\* rendered, is at least 0 and less than the number of stories.
IndexBounds ==
    /\ Len(viewer.stories) > 0 =>
          (0 <= viewer.currentIndex /\ viewer.currentIndex < Len(viewer.stories))
    /\ Len(viewerR.stories) > 0 =>
          (0 <= viewerR.currentIndex /\ viewerR.currentIndex < Len(viewerR.stories))

\* A left press on the first item of two or more, as the last of the
\* presses, after the second item had been marked.
IndexBoundsWitness ==
    /\ taps = MaxTaps /\ lastPress.side = "left" /\ lastPress.idx = 0
    /\ viewer.currentIndex = 0 /\ Len(viewer.stories) >= 2
    /\ Len(markCalls) >= 2

\* C24: while the session plays, every story it holds is, in the table as
\* it is now, active and not expired.
SessionHoldsVisibleOnly ==
    (Mounted /\ ~viewer.loading /\ Len(viewer.stories) > 0) =>
        \A i \in 1..Len(viewer.stories) :
            \E s \in storiesTbl :
                s.id = viewer.stories[i].id /\ s.is_active /\ now < s.expires_at

\* C25: a like toggle, from the press to the settling of its request, leaves
\* the bookmark state and the bookmark in-flight flag as they are, and a
\* bookmark toggle leaves the like state, counter and flag; a press on the
\* one is issued whenever its own flag is clear, whatever the other's.
LikePart(c) == <<c.isLiked, c.likeCount, c.likes>>
BookmarkPart(c) == <<c.isBookmarked, c.bookmark>>

RelationsIndependent ==
    [][/\ toggleLike => /\ BookmarkPart(card') = BookmarkPart(card)
                        /\ InFlightFor("bookmark")' = InFlightFor("bookmark")
                        /\ (user # NoUser /\ ~cardR.likes) =>
                              Cardinality(InFlightFor("like")') = Cardinality(InFlightFor("like")) + 1
       /\ toggleBookmark => /\ LikePart(card') = LikePart(card)
                            /\ InFlightFor("like")' = InFlightFor("like")
                            /\ (user # NoUser /\ ~cardR.bookmark) =>
                                  Cardinality(InFlightFor("bookmark")') =
                                     Cardinality(InFlightFor("bookmark")) + 1
       /\ \A r \in reqs, err \in BOOLEAN :
             toggleSettles(r, err) =>
                IF r.rel = "like"
                THEN BookmarkPart(card') = BookmarkPart(card)
                     /\ InFlightFor("bookmark")' = InFlightFor("bookmark")
                ELSE LikePart(card') = LikePart(card)
                     /\ InFlightFor("like")' = InFlightFor("like")
      ]_vars

\* The like was rolled back while the bookmark, pressed while the like was
\* in flight, is still in flight with its optimistic state.
RelationsIndependentWitness ==
    /\ lastSettle["like"].n > 0 /\ lastSettle["like"].err
    /\ \E r \in InFlightFor("bookmark") : r.n > lastSettle["like"].n
    /\ card.isBookmarked /\ card.bookmark
    /\ ~card.isLiked /\ ~card.likes

\* C26: every entry of the tray other than 'Your Story' is for an author
\* the viewer follows.
TrayListsFollowedOnly ==
    trayPc = "done" =>
        \A i \in 2..Len(tray) :
            [follower |-> user, followed |-> tray[i].userId] \in followsTbl

\* C27: the in-flight flag of a like or bookmark toggle is set exactly while
\* its request is in flight, the settling of the request clears it with or
\* without an error, and the flag, in the state and as rendered, is clear
\* again some time after it was set.
FlagReleased ==
    /\ [](card.likes = (InFlightFor("like") # {}))
    /\ [](card.bookmark = (InFlightFor("bookmark") # {}))
    /\ (card.likes ~> ~card.likes) /\ (cardR.likes ~> ~cardR.likes)
    /\ (card.bookmark ~> ~card.bookmark) /\ (cardR.bookmark ~> ~cardR.bookmark)

\* After a failed bookmark toggle and a successful one, a third is in flight.
FlagReleasedWitness ==
    /\ lastSettle["bookmark"].n = 2
    /\ dropped["bookmark"] = FALSE
    /\ \E r \in InFlightFor("bookmark") : r.n = 3
    /\ card.bookmark /\ cardR.bookmark

\* C28: once the initial status fetch and every like and bookmark request
\* of the card have settled, isLiked and isBookmarked equal the existence
\* of the like and bookmark rows on the server.
LocalConvergesToServer ==
    (/\ initFetch = "done"
     /\ InFlightFor("like") = {}
     /\ InFlightFor("bookmark") = {})
        => /\ card.isLiked = srv["like"]
           /\ card.isBookmarked = srv["bookmark"]

\* C29: the like counter of a card is never negative.
LikeCountNonNegative == card.likeCount >= 0 /\ cardR.likeCount >= 0

\* C30: the viewer is never stuck: whenever the screen is mounted and shows
\* the item of the current index, whatever presses came before, a timer is
\* running for that item (so that, left alone, the session runs to its
\* exhaustion).
ViewerNeverStuck ==
    (Touchable /\ viewerR = viewer) =>
        (anim.running /\ anim.idx = viewer.currentIndex)

====
